---- MODULE Spec2Model ----
(***************************************************************************)
(* A model of gyml (src/gyml.go): path addressing over a yaml.Node tree.   *)
(*                                                                         *)
(* A yaml.Node is modelled as a record [kind, value, content]:             *)
(*   kind    the Kind field (Document, Mapping, Sequence, Scalar, or the   *)
(*           zero Kind of yaml.Node{}, which is what yaml.Unmarshal leaves *)
(*           behind for an empty text: see emptyYAML in the tests);        *)
(*   value   the Value field, a sequence of one-character strings, so that *)
(*           a token is parsed character by character as the code does;    *)
(*   content the Content slice; a Mapping keeps it flat, key1, value1,     *)
(*           key2, value2, ... exactly as yaml.v3 does.                    *)
(* A nil *yaml.Node is the record NilNode.  The code mutates the tree in   *)
(* place through pointers; the model's functions return the mutated node   *)
(* next to the error, and every caller stores the returned child back at   *)
(* the position the pointer came from.                                     *)
(***************************************************************************)
EXTENDS Integers, Sequences, FiniteSets, TLC

VARIABLES root, before, pc, op, keys, data, err, value, found

vars == <<root, before, pc, op, keys, data, err, value, found>>

(***************************************************************************)
(* Bounds of the model.                                                    *)
(***************************************************************************)
\* longest path handed to GetValue and DeleteValue
MaxKeys == 3
\* longest path handed to SetValue
MaxSetKeys == 2

(***************************************************************************)
(* The error values of src/gyml.go:14-23.  A wrapped error                 *)
(* (fmt.Errorf("%w: ...")) is modelled by the sentinel it wraps, which is  *)
(* what errors.Is observes.                                                *)
(***************************************************************************)
NoErr == "nil"
ErrRootNodeNotSet == "rootNode not set"
ErrKeyNotFound == "key not found"
ErrEmptyDocumentNode == "empty document node provided"
ErrUnexpectedNodeKind == "unexpected node kind provided"
ErrInvalidIndexFormat == "invalid index format"
ErrIndexOutOfBound == "provided index out of bound"
ErrInvalidKeysList == "invalid keys list"
ErrScalarSetAttempt == "cannot iterate over scalar node"

(***************************************************************************)
(* yaml.Node                                                               *)
(***************************************************************************)
DocumentNode == "Document"
SequenceNode == "Sequence"
MappingNode == "Mapping"
ScalarNode == "Scalar"
ZeroKind == "Zero"

Node(kind, val, content) == [kind |-> kind, value |-> val, content |-> content]

\* a nil *yaml.Node
NilNode == Node("nil", <<>>, <<>>)
\* yaml.Node{}: what yaml.Unmarshal("") leaves in the root
ZeroNode == Node(ZeroKind, <<>>, <<>>)

ScalarOf(s) == Node(ScalarNode, s, <<>>)
SeqOf(elems) == Node(SequenceNode, <<>>, elems)
MapOf(flat) == Node(MappingNode, <<>>, flat)
DocOf(children) == Node(DocumentNode, <<>>, children)

\* slices.Delete(s, i, j), 0-based and half-open as in Go
SlicesDelete(s, i, j) == SubSeq(s, 1, i) \o SubSeq(s, j + 1, Len(s))

(***************************************************************************)
(* strconv.Atoi on a sequence of characters: an optional sign, then one or *)
(* more decimal digits; anything else is an error.  The tokens of the      *)
(* model are far too short to overflow an int.                             *)
(***************************************************************************)
Digits == {"0", "1", "2", "3", "4", "5", "6", "7", "8", "9"}

DigitVal(c) == CASE c = "0" -> 0 [] c = "1" -> 1 [] c = "2" -> 2 [] c = "3" -> 3
                 [] c = "4" -> 4 [] c = "5" -> 5 [] c = "6" -> 6 [] c = "7" -> 7
                 [] c = "8" -> 8 [] c = "9" -> 9

RECURSIVE DecimalVal(_)
DecimalVal(s) == IF Len(s) = 0 THEN 0
                 ELSE 10 * DecimalVal(SubSeq(s, 1, Len(s) - 1)) + DigitVal(s[Len(s)])

Atoi(s) ==
  LET signed == Len(s) > 0 /\ s[1] \in {"+", "-"}
      body == IF signed THEN Tail(s) ELSE s
  IN  IF Len(body) = 0 \/ \E i \in 1..Len(body) : body[i] \notin Digits
        THEN [ok |-> FALSE, n |-> 0]
        ELSE [ok |-> TRUE,
              n |-> IF signed /\ s[1] = "-" THEN 0 - DecimalVal(body) ELSE DecimalVal(body)]

\* parseValidIndex with the range failure reported as a format failure
parseValidIndexErrSwap(indexStr, node) ==
  IF Len(indexStr) < 3 THEN [index |-> 0, err |-> ErrInvalidIndexFormat]
  ELSE IF indexStr[1] # "[" \/ indexStr[Len(indexStr)] # "]"
    THEN [index |-> 0, err |-> ErrInvalidIndexFormat]
  ELSE LET a == Atoi(SubSeq(indexStr, 2, Len(indexStr) - 1)) IN
    IF ~a.ok THEN [index |-> 0, err |-> ErrInvalidIndexFormat]
    ELSE IF a.n < 0 \/ a.n >= Len(node.content)
      THEN [index |-> 0, err |-> ErrInvalidIndexFormat]
    ELSE [index |-> a.n, err |-> NoErr]

parseValidIndex(indexStr, node) ==
  IF Len(indexStr) < 3 THEN [index |-> 0, err |-> ErrInvalidIndexFormat]
  ELSE IF indexStr[1] # "[" \/ indexStr[Len(indexStr)] # "]"
    THEN [index |-> 0, err |-> ErrInvalidIndexFormat]
  ELSE LET a == Atoi(SubSeq(indexStr, 2, Len(indexStr) - 1)) IN
    IF ~a.ok THEN [index |-> 0, err |-> ErrInvalidIndexFormat]
    ELSE IF a.n < 0 \/ a.n >= Len(node.content)
      THEN [index |-> 0, err |-> ErrIndexOutOfBound]
    ELSE [index |-> a.n, err |-> NoErr]

(***************************************************************************)
(* The loop of the Mapping branches: the 0-based position of the first key *)
(* equal to key, scanning i = from, from+2, ...; -1 when none matches.     *)
(***************************************************************************)
RECURSIVE findKey(_, _, _)
findKey(content, key, from) ==
  IF from >= Len(content) THEN 0 - 1
  ELSE IF content[from + 1].value = key THEN from
  ELSE findKey(content, key, from + 2)

Ret(e, n) == [err |-> e, node |-> n]

(***************************************************************************)
(* getValue, src/gyml.go:121-155                                           *)
(***************************************************************************)
\* getValue with the Mapping scan keeping the last match instead of the first
RECURSIVE getValueLastMatch(_, _)
getValueLastMatch(node, ks) ==
  IF Len(ks) = 0 THEN Ret(NoErr, node)
  ELSE IF node.kind = DocumentNode THEN
    IF Len(node.content) = 0 THEN Ret(ErrEmptyDocumentNode, NilNode)
    ELSE getValueLastMatch(node.content[1], ks)
  ELSE IF node.kind = SequenceNode THEN
    LET p == parseValidIndex(ks[1], node) IN
    IF p.err # NoErr THEN Ret(p.err, NilNode)
    ELSE getValueLastMatch(node.content[p.index + 1], Tail(ks))
  ELSE IF node.kind = MappingNode THEN
    LET hits == {i \in 0..(Len(node.content) - 1) :
                   i % 2 = 0 /\ node.content[i + 1].value = ks[1]} IN
    IF hits = {} THEN Ret(ErrKeyNotFound, NilNode)
    ELSE LET i == CHOOSE h \in hits : \A g \in hits : g <= h
         IN  getValueLastMatch(node.content[i + 2], Tail(ks))
  ELSE Ret(ErrUnexpectedNodeKind, NilNode)

RECURSIVE getValue(_, _)
getValue(node, ks) ==
  IF Len(ks) = 0 THEN Ret(NoErr, node)
  ELSE IF node.kind = DocumentNode THEN
    IF Len(node.content) = 0 THEN Ret(ErrEmptyDocumentNode, NilNode)
    ELSE getValue(node.content[1], ks)
  ELSE IF node.kind = SequenceNode THEN
    LET p == parseValidIndex(ks[1], node) IN
    IF p.err # NoErr THEN Ret(p.err, NilNode)
    ELSE getValue(node.content[p.index + 1], Tail(ks))
  ELSE IF node.kind = MappingNode THEN
    LET i == findKey(node.content, ks[1], 0) IN
    IF i >= 0 THEN getValue(node.content[i + 2], Tail(ks))
    ELSE Ret(ErrKeyNotFound, NilNode)
  ELSE Ret(ErrUnexpectedNodeKind, NilNode)

(***************************************************************************)
(* isEmptyNode, src/gyml.go:229-234                                        *)
(***************************************************************************)
\* isEmptyNode without the Sequence kind
isEmptyNodeMappingOnly(node) ==
  IF node.kind = MappingNode
    THEN Len(node.content) = 0
    ELSE FALSE

isEmptyNode(node) ==
  IF node.kind = MappingNode \/ node.kind = SequenceNode
    THEN Len(node.content) = 0
    ELSE FALSE

(***************************************************************************)
(* The steps of deleteValue that change the tree.                          *)
(*   removeElement  src/gyml.go:188-191, the last token in a Sequence      *)
(*   removeEntry    src/gyml.go:205-208, the last token in a Mapping       *)
(*   pruneChild     src/gyml.go:193-199 and 210-216: held is the node with *)
(*                  the child as the recursive call r left it, at content  *)
(*                  positions [from, to) (0-based); the child is removed   *)
(*                  when the call succeeded and left it empty.             *)
(***************************************************************************)
\* removeElement as the first deleteValue had it: a Sequence reports success untouched
removeElementKeeps(node, index) == Ret(NoErr, node)

\* removeElement with the bounds of the Mapping branch, i to i+2
removeElementAndNext(node, index) ==
  Ret(NoErr, [node EXCEPT !.content = SlicesDelete(@, index, index + 2)])

removeElement(node, index) ==
  Ret(NoErr, [node EXCEPT !.content = SlicesDelete(@, index, index + 1)])

removeEntry(node, i) ==
  Ret(NoErr, [node EXCEPT !.content = SlicesDelete(@, i, i + 2)])

\* pruneChild without the retVal == nil test
pruneChildOnError(held, r, from, to) ==
  IF isEmptyNode(r.node)
    THEN Ret(r.err, [held EXCEPT !.content = SlicesDelete(@, from, to)])
    ELSE Ret(r.err, held)

\* pruneChild without the prune
pruneChildNever(held, r, from, to) == Ret(r.err, held)

pruneChild(held, r, from, to) ==
  IF r.err = NoErr /\ isEmptyNode(r.node)
    THEN Ret(r.err, [held EXCEPT !.content = SlicesDelete(@, from, to)])
    ELSE Ret(r.err, held)

(***************************************************************************)
(* deleteValue, src/gyml.go:168-227.  The child reached through            *)
(* node.Content[index] (or valueNode) is mutated in place by the recursive *)
(* call, so the parent holds the returned child whatever the call          *)
(* returned, and then prunes it if the call succeeded and left it empty.   *)
(***************************************************************************)
RECURSIVE deleteValue(_, _)
deleteValue(node, ks) ==
  IF Len(ks) = 0 \/ node = NilNode THEN Ret(ErrInvalidKeysList, node)
  ELSE IF node.kind = DocumentNode THEN
    IF Len(node.content) > 0
      THEN LET r == deleteValue(node.content[1], ks)
           IN  Ret(r.err, [node EXCEPT !.content[1] = r.node])
      ELSE Ret(ErrEmptyDocumentNode, node)
  ELSE IF node.kind = SequenceNode THEN
    LET p == parseValidIndex(ks[1], node) IN
    IF p.err # NoErr THEN Ret(p.err, node)
    ELSE IF Len(ks) = 1 THEN removeElement(node, p.index)
    ELSE LET r == deleteValue(node.content[p.index + 1], Tail(ks))
         IN  pruneChild([node EXCEPT !.content[p.index + 1] = r.node], r,
                        p.index, p.index + 1)
  ELSE IF node.kind = MappingNode THEN
    LET i == findKey(node.content, ks[1], 0) IN
    IF i < 0 THEN Ret(ErrKeyNotFound, node)
    ELSE IF Len(ks) = 1 THEN removeEntry(node, i)
    ELSE LET r == deleteValue(node.content[i + 2], Tail(ks))
         IN  pruneChild([node EXCEPT !.content[i + 2] = r.node], r, i, i + 2)
  ELSE IF node.kind = ScalarNode THEN Ret(ErrInvalidKeysList, node)
  ELSE Ret(ErrUnexpectedNodeKind, node)

(***************************************************************************)
(* Go values on the typed side of the boundary (DataType of SetValue, and  *)
(* GetValue[any]): a string, a []any, a map[string]any given by its set of *)
(* <<key, value>> entries, nil, and a value whose MarshalYAML fails.       *)
(***************************************************************************)
GoVal(t, s, elems, entries) == [t |-> t, s |-> s, elems |-> elems, entries |-> entries]
GoNil == GoVal("nil", <<>>, <<>>, {})
GoBad == GoVal("bad", <<>>, <<>>, {})
GoString(s) == GoVal("string", s, <<>>, {})
GoSlice(elems) == GoVal("slice", <<>>, elems, {})
GoMap(entries) == GoVal("map", <<>>, <<>>, entries)

ErrEncode == "cannot encode value to yaml node"
ErrDecode == "GetValue: cannot decode yaml node value"
Null == <<"n", "u", "l", "l">>
AppendTok == <<"[", "]">>

(***************************************************************************)
(* createTypedEnvelope, src/gyml.go:240-253                                *)
(***************************************************************************)
RECURSIVE createTypedEnvelope(_, _)
createTypedEnvelope(d, restKeys) ==
  IF Len(restKeys) = 0 THEN d
  ELSE IF restKeys[1] = AppendTok
    THEN GoSlice(<<createTypedEnvelope(d, Tail(restKeys))>>)
    ELSE GoMap({<<restKeys[1], createTypedEnvelope(d, Tail(restKeys))>>})

(***************************************************************************)
(* yaml.Node.Encode as createContentNode uses it (src/gyml.go:256-263):    *)
(* the node becomes the encoded value itself, not a Document around it: a *)
(* Mapping for a map, a Sequence for a slice, a Scalar for a string.  The  *)
(* maps of the model have at most one entry (createTypedEnvelope builds no *)
(* other), so the encoder's key order does not arise.                      *)
(***************************************************************************)
RECURSIVE Encode(_)
Encode(v) ==
  IF v.t = "bad" THEN Ret(ErrEncode, NilNode)
  ELSE IF v.t = "nil" THEN Ret(NoErr, ScalarOf(Null))
  ELSE IF v.t = "string" THEN Ret(NoErr, ScalarOf(v.s))
  ELSE IF v.t = "slice" THEN
    LET parts == [i \in 1..Len(v.elems) |-> Encode(v.elems[i])] IN
    IF \E i \in 1..Len(parts) : parts[i].err # NoErr
      THEN Ret(ErrEncode, NilNode)
      ELSE Ret(NoErr, SeqOf([i \in 1..Len(parts) |-> parts[i].node]))
  ELSE IF v.entries = {} THEN Ret(NoErr, MapOf(<<>>))
  ELSE LET e == CHOOSE x \in v.entries : TRUE
           r == Encode(e[2])
       IN  IF r.err # NoErr THEN Ret(ErrEncode, NilNode)
           ELSE Ret(NoErr, MapOf(<<ScalarOf(e[1]), r.node>>))

createContentNode(d) == Encode(d)

(***************************************************************************)
(* appendDataToContent, src/gyml.go:265-272                                *)
(***************************************************************************)
appendDataToContent(node, d, ks) ==
  LET contentNode == createContentNode(createTypedEnvelope(d, ks)) IN
  IF contentNode.err # NoErr THEN Ret(contentNode.err, node)
  ELSE Ret(NoErr, [node EXCEPT !.content = @ \o contentNode.node.content])

(***************************************************************************)
(* setValue, src/gyml.go:105-119                                           *)
(***************************************************************************)
\* setValue without the len(root.Content) > 0 test
setValueNoChildCheck(node, d, ks) ==
  IF node.kind = ScalarNode THEN Ret(ErrScalarSetAttempt, node)
  ELSE IF node.kind = DocumentNode THEN appendDataToContent(node, d, ks)
  ELSE Ret(ErrUnexpectedNodeKind, node)

RECURSIVE setValue(_, _, _)
setValue(node, d, ks) ==
  IF node.kind = ScalarNode THEN Ret(ErrScalarSetAttempt, node)
  ELSE IF node.kind = DocumentNode THEN
    IF Len(node.content) > 0
      THEN LET r == setValue(node.content[1], d, ks)
           IN  Ret(r.err, [node EXCEPT !.content[1] = r.node])
      ELSE appendDataToContent(node, d, ks)
  ELSE Ret(ErrUnexpectedNodeKind, node)

(***************************************************************************)
(* yaml.Node.Decode into an any, as GetValue[any] uses it: a Document      *)
(* decodes as its only child and leaves the zero value when it has none or *)
(* several; yaml.Node{} decodes as null; a Mapping with a repeated key is  *)
(* a decode error.  Scalars are opaque strings here.                       *)
(***************************************************************************)
RECURSIVE Decode(_)
Decode(node) ==
  IF node.kind = DocumentNode THEN
    IF Len(node.content) = 1 THEN Decode(node.content[1]) ELSE [err |-> NoErr, v |-> GoNil]
  ELSE IF node.kind = ZeroKind THEN [err |-> NoErr, v |-> GoNil]
  ELSE IF node.kind = ScalarNode THEN [err |-> NoErr, v |-> GoString(node.value)]
  ELSE IF node.kind = SequenceNode THEN
    LET parts == [i \in 1..Len(node.content) |-> Decode(node.content[i])] IN
    IF \E i \in 1..Len(parts) : parts[i].err # NoErr
      THEN [err |-> ErrDecode, v |-> GoNil]
      ELSE [err |-> NoErr, v |-> GoSlice([i \in 1..Len(parts) |-> parts[i].v])]
  ELSE IF node.kind = MappingNode THEN
    LET n == Len(node.content) \div 2
        parts == [i \in 1..n |-> Decode(node.content[2 * i])]
        key(i) == node.content[2 * i - 1].value
    IN  IF \/ \E i \in 1..n : parts[i].err # NoErr
           \/ \E i, j \in 1..n : i # j /\ key(i) = key(j)
          THEN [err |-> ErrDecode, v |-> GoNil]
          ELSE [err |-> NoErr, v |-> GoMap({<<key(i), parts[i].v>> : i \in 1..n})]
  ELSE [err |-> ErrDecode, v |-> GoNil]

(***************************************************************************)
(* normalizeEmptySlice, src/gyml.go:157-166: for DataType any the          *)
(* reflected kind of *v is Interface, never Slice, so the value is kept.   *)
(***************************************************************************)
normalizeEmptySlice(v) == v

(***************************************************************************)
(* The public operations, src/gyml.go:36-81                                *)
(***************************************************************************)
SetValue(r, d, ks) ==
  IF Len(ks) = 0 THEN Ret(ErrInvalidKeysList, r)
  ELSE IF r = NilNode THEN Ret(ErrRootNodeNotSet, r)
  ELSE setValue(r, d, ks)

DeleteValue(r, ks) ==
  IF Len(ks) = 0 THEN Ret(ErrInvalidKeysList, r)
  ELSE IF r = NilNode THEN Ret(ErrRootNodeNotSet, r)
  ELSE deleteValue(r, ks)

GetValue(rootNode, ks) ==
  IF rootNode = NilNode THEN [err |-> ErrRootNodeNotSet, v |-> GoNil]
  ELSE LET g == getValue(rootNode, ks) IN
    IF g.err # NoErr THEN [err |-> g.err, v |-> GoNil]
    ELSE LET dec == Decode(g.node) IN
      IF dec.err # NoErr THEN [err |-> dec.err, v |-> GoNil]
      ELSE [err |-> NoErr, v |-> normalizeEmptySlice(dec.v)]

(***************************************************************************)
(* Inputs: path tokens, paths, values and the trees a caller starts from.  *)
(***************************************************************************)
KeyA == <<"a">>
KeyLong == <<"k", "e", "y">>
Idx0 == <<"[", "0", "]">>
Idx1 == <<"[", "1", "]">>
Idx2 == <<"[", "2", "]">>
IdxNeg == <<"[", "-", "1", "]">>
IdxStar == <<"[", "*", "]">>

Tokens == {KeyA, KeyLong, Idx0, Idx1, Idx2, IdxNeg, IdxStar, AppendTok}
SetTokens == {KeyA, AppendTok}

SeqsUpTo(S, n) == UNION {[1..k -> S] : k \in 0..n}

Paths == SeqsUpTo(Tokens, MaxKeys)
SetPaths == SeqsUpTo(SetTokens, MaxSetKeys)

S10 == ScalarOf(<<"1", "0">>)
S20 == ScalarOf(<<"2", "0">>)
S30 == ScalarOf(<<"3", "0">>)

Values == {GoString(<<"v">>), GoSlice(<<GoString(<<"v">>)>>), GoBad}

\* a Mapping with a three-level chain next to a list, as testYAML has
TreeServers ==
  DocOf(<<MapOf(<<ScalarOf(KeyA), MapOf(<<ScalarOf(KeyA), MapOf(<<ScalarOf(KeyA), S10>>)>>),
                  ScalarOf(KeyLong), SeqOf(<<S10, S20, S30>>)>>)>>)
\* a chain whose every container holds one entry
TreeChain == DocOf(<<MapOf(<<ScalarOf(KeyA), MapOf(<<ScalarOf(KeyA), SeqOf(<<S10>>)>>)>>)>>)
\* sequences in a sequence
TreeNested == DocOf(<<SeqOf(<<SeqOf(<<S10>>), S20, SeqOf(<<MapOf(<<ScalarOf(KeyA), S30>>)>>)>>)>>)
\* listYAML, handed over without its Document
TreeList == SeqOf(<<S10, S20>>)
\* a Mapping handed over as root, with a repeated key
TreeDup == MapOf(<<ScalarOf(KeyA), S10, ScalarOf(KeyA), MapOf(<<ScalarOf(KeyLong), S20>>)>>)
\* containers that are empty in the text: {a: {}, key: []}
TreeHollow == DocOf(<<MapOf(<<ScalarOf(KeyA), MapOf(<<>>), ScalarOf(KeyLong), SeqOf(<<>>)>>)>>)

CleanRoots == {NilNode, ZeroNode, DocOf(<<>>), DocOf(<<S10>>),
               TreeServers, TreeChain, TreeNested, TreeList, TreeDup}
InitRoots == CleanRoots \cup {TreeHollow}

(***************************************************************************)
(* The state machine: one caller owns root and makes one call at a time.   *)
(* A call runs to completion in one step and leaves its arguments and      *)
(* results in op, keys, data, err, value, found, and the tree it started   *)
(* from in before; Return is the caller taking the result.                 *)
(***************************************************************************)
NoCall ==
  /\ op = "none" /\ keys = <<>> /\ data = GoNil /\ err = NoErr
  /\ value = GoNil /\ found = Ret(NoErr, NilNode)

InitFrom(roots) ==
  /\ root \in roots
  /\ before = root
  /\ pc = "idle"
  /\ NoCall

Init == InitFrom(InitRoots)

InitClean == InitFrom(CleanRoots)

Get ==
  /\ pc = "idle"
  /\ \E ks \in Paths :
       LET g == GetValue(root, ks) IN
       /\ keys' = ks
       /\ err' = g.err
       /\ value' = g.v
       /\ found' = IF root = NilNode THEN Ret(ErrRootNodeNotSet, NilNode) ELSE getValue(root, ks)
  /\ op' = "Get"
  /\ data' = GoNil
  /\ before' = root
  /\ pc' = "returned"
  /\ UNCHANGED root

Set ==
  /\ pc = "idle"
  /\ \E ks \in SetPaths, d \in Values :
       LET r == SetValue(root, d, ks) IN
       /\ keys' = ks
       /\ data' = d
       /\ err' = r.err
       /\ root' = r.node
  /\ op' = "Set"
  /\ value' = GoNil
  /\ found' = Ret(NoErr, NilNode)
  /\ before' = root
  /\ pc' = "returned"

Delete ==
  /\ pc = "idle"
  /\ \E ks \in Paths :
       LET r == DeleteValue(root, ks) IN
       /\ keys' = ks
       /\ err' = r.err
       /\ root' = r.node
  /\ op' = "Delete"
  /\ data' = GoNil
  /\ value' = GoNil
  /\ found' = Ret(NoErr, NilNode)
  /\ before' = root
  /\ pc' = "returned"

Return ==
  /\ pc = "returned"
  /\ pc' = "idle"
  /\ before' = root
  /\ op' = "none" /\ keys' = <<>> /\ data' = GoNil /\ err' = NoErr
  /\ value' = GoNil /\ found' = Ret(NoErr, NilNode)
  /\ UNCHANGED root

Next == Get \/ Set \/ Delete \/ Return

Spec == Init /\ [][Next]_vars

SpecClean == InitClean /\ [][Next]_vars

(***************************************************************************)
(* Reference vocabulary of the properties below.  It is written from the   *)
(* token grammar and the data model, not from the traversal code: an index *)
(* token is looked up in a table, a key is matched by position.            *)
(***************************************************************************)
Returned(o) == pc = "returned" /\ op = o

IsEmptyDocument(n) == n.kind = DocumentNode /\ Len(n.content) = 0

IsContainer(n) == n.kind \in {MappingNode, SequenceNode}

\* the index an index token stands for
IsIndexToken(t) == t \in {Idx0, Idx1, Idx2, IdxNeg}
IndexOfToken(t) == CASE t = Idx0 -> 0 [] t = Idx1 -> 1 [] t = Idx2 -> 2
                     [] t = IdxNeg -> 0 - 1

\* the node a path starts in: the child of a Document, or the root itself
Top(n) == IF n.kind = DocumentNode /\ Len(n.content) > 0 THEN n.content[1] ELSE n

Entries(c) == IF c.kind = MappingNode THEN Len(c.content) \div 2 ELSE Len(c.content)

\* the position in c.content of the child that token t selects in container c, or 0
ChildPos(c, t) ==
  IF c.kind = MappingNode THEN
    LET hits == {i \in 1..Entries(c) : c.content[2 * i - 1].value = t} IN
    IF hits = {} THEN 0 ELSE 2 * (CHOOSE i \in hits : \A j \in hits : i <= j)
  ELSE IF c.kind = SequenceNode THEN
    IF IsIndexToken(t) /\ IndexOfToken(t) >= 0 /\ IndexOfToken(t) < Len(c.content)
      THEN IndexOfToken(t) + 1 ELSE 0
  ELSE 0

\* the node that path ks addresses in tree, or NilNode
RECURSIVE At(_, _)
At(tree, ks) ==
  IF Len(ks) = 0 THEN Top(tree)
  ELSE LET parent == At(tree, SubSeq(ks, 1, Len(ks) - 1))
           pos == ChildPos(parent, ks[Len(ks)])
       IN  IF pos = 0 THEN NilNode ELSE parent.content[pos]

Prefix(ks, k) == SubSeq(ks, 1, k)

\* c.content without the entry (key and value, or element) that t selects
Without(c, t) ==
  LET pos == ChildPos(c, t) IN
  IF c.kind = MappingNode
    THEN SubSeq(c.content, 1, pos - 2) \o SubSeq(c.content, pos + 1, Len(c.content))
    ELSE SubSeq(c.content, 1, pos - 1) \o SubSeq(c.content, pos + 1, Len(c.content))

\* tree with the entry that ks addresses taken out of its container, and nothing else
RECURSIVE RemoveEntry(_, _)
RemoveEntry(n, ks) ==
  IF n.kind = DocumentNode THEN [n EXCEPT !.content[1] = RemoveEntry(@, ks)]
  ELSE IF Len(ks) = 1 THEN [n EXCEPT !.content = Without(n, ks[1])]
  ELSE [n EXCEPT !.content[ChildPos(n, ks[1])] = RemoveEntry(@, Tail(ks))]

\* the container k tokens down the path holds one entry, and so does every
\* container below it on the path: the delete leaves it empty
Emptied(tree, ks, k) == \A j \in k..(Len(ks) - 1) : Entries(At(tree, Prefix(ks, j))) = 1

\* the number of tokens of ks down to the entry the delete takes out, pruning included
CutDepth(tree, ks) == CHOOSE k \in 1..Len(ks) :
  /\ Emptied(tree, ks, k)
  /\ \A j \in 1..(k - 1) : ~Emptied(tree, ks, j)

RECURSIVE DocumentsHold01(_)
DocumentsHold01(n) ==
  /\ n.kind = DocumentNode => Len(n.content) <= 1
  /\ \A i \in 1..Len(n.content) : DocumentsHold01(n.content[i])

RECURSIVE NoEmptyContainer(_)
NoEmptyContainer(n) ==
  /\ IsContainer(n) => Len(n.content) > 0
  /\ \A i \in 1..Len(n.content) : NoEmptyContainer(n.content[i])

\* no Mapping or Sequence is empty, the node a path starts in excepted
NoEmptyBelowTop(n) ==
  IF n.kind = DocumentNode
    THEN /\ \A i \in 2..Len(n.content) : NoEmptyContainer(n.content[i])
         /\ Len(n.content) > 0 =>
              \A i \in 1..Len(n.content[1].content) : NoEmptyContainer(n.content[1].content[i])
    ELSE \A i \in 1..Len(n.content) : NoEmptyContainer(n.content[i])

(***************************************************************************)
(* C1: a SetValue that succeeds on a Document without a child is followed  *)
(* by a GetValue of the same path that succeeds and returns the value set. *)
(***************************************************************************)
C1_SetThenGet ==
  (Returned("Set") /\ err = NoErr /\ IsEmptyDocument(before) /\ Len(keys) > 0) =>
    LET g == GetValue(root, keys) IN g.err = NoErr /\ g.v = data

(***************************************************************************)
(* C2: every Document of the tree holds 0 or 1 children, and a SetValue    *)
(* that succeeds on an empty Document leaves it with one child, the        *)
(* envelope (a Mapping for a key token, a Sequence for []) of the value.   *)
(***************************************************************************)
C2_DocumentChildCount ==
  /\ DocumentsHold01(root)
  /\ (Returned("Set") /\ err = NoErr /\ IsEmptyDocument(before)) =>
       /\ Len(root.content) = 1
       /\ root.content[1].kind = (IF keys[1] = AppendTok THEN SequenceNode ELSE MappingNode)
       /\ root.content[1] = Encode(createTypedEnvelope(data, keys)).node

C4_CascadingPrune ==
  (Returned("Delete") /\ err = NoErr /\ Len(keys) >= 2) =>
    \A k \in 1..(Len(keys) - 1) :
      LET old == At(before, Prefix(keys, k))
          parent == At(before, Prefix(keys, k - 1))
      IN  IF Emptied(before, keys, k)
            THEN (k = 1 \/ ~Emptied(before, keys, k - 1)) =>
                   At(root, Prefix(keys, k - 1)).content = Without(parent, keys[k])
            ELSE LET new == At(root, Prefix(keys, k)) IN
                 /\ new.kind = old.kind
                 /\ Entries(new) >= 1
                 /\ Entries(new) = Entries(old) - (IF Emptied(before, keys, k + 1) THEN 1 ELSE 0)

C4_Witness ==
  /\ Returned("Delete") /\ err = NoErr /\ Len(keys) = 3
  /\ Emptied(before, keys, 1)
  /\ At(before, Prefix(keys, 2)).kind = SequenceNode
  /\ At(root, <<>>) = MapOf(<<>>)

(***************************************************************************)
(* C5: starting from a tree without an empty Mapping or Sequence, no       *)
(* Mapping or Sequence of the tree is ever empty, the Document's child and *)
(* a Mapping or Sequence handed over as root included.                     *)
(***************************************************************************)
C5_NoEmptyContainer == NoEmptyContainer(root)

(***************************************************************************)
(* C5, amended: starting from a tree without an empty Mapping or Sequence, *)
(* no Mapping or Sequence below the node a path starts in (the Document's  *)
(* child, or the Mapping or Sequence handed over as root) is ever empty;   *)
(* that node itself is left empty when its last entry goes.                *)
(***************************************************************************)
C5_NoEmptyBelowTop == NoEmptyBelowTop(root)

C5_Witness ==
  /\ Returned("Delete") /\ err = NoErr /\ Len(keys) >= 2
  /\ Emptied(before, keys, 1)
  /\ root.kind = DocumentNode /\ Len(root.content) = 1
  /\ IsContainer(root.content[1]) /\ Len(root.content[1].content) = 0

(***************************************************************************)
(* C6: when DeleteValue(root, p) succeeded, the same call made again fails *)
(* with KeyNotFound or IndexOutOfBound.                                    *)
(***************************************************************************)
C6_DoubleDelete ==
  (Returned("Delete") /\ err = NoErr) =>
    DeleteValue(root, keys).err \in {ErrKeyNotFound, ErrIndexOutOfBound}

\* every token of the path addresses the last element of a Sequence, or a key that
\* occurs once in its Mapping: no other entry can move into the addressed place
AddressesLast(tree, ks) ==
  \A k \in 1..Len(ks) :
    LET c == At(tree, Prefix(ks, k - 1)) IN
    IF c.kind = SequenceNode THEN ChildPos(c, ks[k]) = Len(c.content)
    ELSE Cardinality({i \in 1..Entries(c) : c.content[2 * i - 1].value = ks[k]}) = 1

(***************************************************************************)
(* C6, amended: when DeleteValue(root, p) succeeded and every token of p   *)
(* addressed the last element of its Sequence or a key occurring once in   *)
(* its Mapping, the same call made again fails with KeyNotFound or         *)
(* IndexOutOfBound.  (Otherwise a later element or a repeated key has      *)
(* moved into the addressed place and the second call acts on it.)         *)
(***************************************************************************)
C6_DoubleDeleteOfLast ==
  (Returned("Delete") /\ err = NoErr /\ AddressesLast(before, keys)) =>
    DeleteValue(root, keys).err \in {ErrKeyNotFound, ErrIndexOutOfBound}

C6_Witness ==
  /\ Returned("Delete") /\ err = NoErr /\ AddressesLast(before, keys)
  /\ before = TreeList /\ keys = <<Idx1>>
  /\ DeleteValue(root, keys).err = ErrIndexOutOfBound

(***************************************************************************)
(* C7: when GetValue or DeleteValue reaches a Sequence of length n with    *)
(* next token t, the call fails with InvalidIndexFormat if t is not a      *)
(* bracketed base-10 integer, fails with IndexOutOfBound if t is [i] with  *)
(* i < 0 or i >= n, and otherwise goes on with element i (a delete whose   *)
(* last token it is removes exactly that element).                         *)
(***************************************************************************)
C7_IndexValidation ==
  (pc = "returned" /\ op \in {"Get", "Delete"}) =>
    \A k \in 1..Len(keys) :
      LET seq == At(before, Prefix(keys, k - 1))
          n == Len(seq.content)
          t == keys[k]
      IN  seq.kind = SequenceNode =>
            IF ~IsIndexToken(t) THEN err = ErrInvalidIndexFormat
            ELSE IF IndexOfToken(t) < 0 \/ IndexOfToken(t) >= n THEN err = ErrIndexOutOfBound
            ELSE /\ getValue(before, Prefix(keys, k)) = Ret(NoErr, seq.content[IndexOfToken(t) + 1])
                 /\ k = Len(keys) =>
                      /\ err = NoErr
                      /\ op = "Get" => found.node = seq.content[IndexOfToken(t) + 1]
                      /\ (op = "Delete" /\ n > 1) =>
                           At(root, Prefix(keys, k - 1)).content = Without(seq, t)

C7_Witness ==
  /\ Returned("Delete") /\ before = TreeServers
  /\ keys = <<KeyLong, IdxNeg>> /\ err = ErrIndexOutOfBound

(***************************************************************************)
(* C8: a successful DeleteValue removes the entry its path addresses, or   *)
(* the highest container on the path that this empties, and nothing else:  *)
(* all other entries and elements stay, in their order, so the elements    *)
(* behind a removed element i of a Sequence are found one index lower.     *)
(***************************************************************************)
C8_DeleteFrame ==
  (Returned("Delete") /\ err = NoErr) =>
    /\ root = RemoveEntry(before, Prefix(keys, CutDepth(before, keys)))
    /\ LET seq == At(before, Prefix(keys, Len(keys) - 1))
           i == IndexOfToken(keys[Len(keys)])
       IN  (seq.kind = SequenceNode /\ Len(seq.content) > 1) =>
             \A j \in (i + 1)..(Len(seq.content) - 1) :
               At(root, Prefix(keys, Len(keys) - 1)).content[j] = seq.content[j + 1]

C8_Witness ==
  /\ Returned("Delete") /\ err = NoErr
  /\ before = TreeServers /\ keys = <<KeyLong, Idx1>>
  /\ GetValue(root, keys) = [err |-> NoErr, v |-> GoString(<<"3", "0">>)]

(***************************************************************************)
(* C9: a DeleteValue or SetValue that returns an error leaves the whole    *)
(* tree as it was before the call.                                         *)
(***************************************************************************)
C9_FailureAtomicity ==
  (pc = "returned" /\ op \in {"Set", "Delete"} /\ err # NoErr) => root = before

C9_Witness ==
  /\ Returned("Delete") /\ err = ErrKeyNotFound /\ Len(keys) = 3
  /\ At(before, Prefix(keys, 2)) # NilNode
  /\ root = before

(***************************************************************************)
(* C10: getValue returns the node it is at when the path is exhausted;     *)
(* fails with EmptyDocument on a Document without a child and a non-empty  *)
(* path; enters the child of a Document without consuming a token; in a    *)
(* Mapping enters the value of the first entry whose key equals the next   *)
(* token and fails with KeyNotFound when there is none; fails with         *)
(* UnexpectedNodeKind on a Scalar with tokens left; and leaves the tree    *)
(* alone.  R(k) is what getValue returns for the first k tokens.           *)
(***************************************************************************)
C10_ResolverDispatch ==
  (Returned("Get") /\ before # NilNode) =>
    LET R(k) == getValue(before, Prefix(keys, k)) IN
    /\ root = before
    /\ found = R(Len(keys))
    /\ R(0) = Ret(NoErr, before)
    /\ \A k \in 1..Len(keys) :
         LET at == R(k - 1).node
             m == Top(at)
         IN  IF R(k - 1).err # NoErr THEN R(k).err = R(k - 1).err
             ELSE /\ IsEmptyDocument(at) => R(k).err = ErrEmptyDocumentNode
                  /\ (at.kind = DocumentNode /\ Len(at.content) > 0) =>
                       R(k) = getValue(at.content[1], <<keys[k]>>)
                  /\ m.kind = MappingNode =>
                       IF ChildPos(m, keys[k]) = 0 THEN R(k).err = ErrKeyNotFound
                       ELSE R(k) = Ret(NoErr, m.content[ChildPos(m, keys[k])])
                  /\ m.kind = ScalarNode => R(k).err = ErrUnexpectedNodeKind

C10_Witness ==
  /\ Returned("Get") /\ before = TreeDup /\ keys = <<KeyA, KeyLong>>
  /\ err = ErrUnexpectedNodeKind /\ found.err = ErrUnexpectedNodeKind
  /\ getValue(before, <<KeyA>>) = Ret(NoErr, S10)

====
